---- MODULE Spec2Model ----
(***************************************************************************)
(* A model of the composable-agents core:                                  *)
(*   - agents/flow/retry.py      : the Retry wrapper tool                  *)
(*   - agents/backends/react.py  : the ReAct response parser               *)
(* Each component has its own specification (SpecRetry, SpecParse) over    *)
(* the module's variables; a component's variables stay at their initial   *)
(* value under the other component's specification.                        *)
(***************************************************************************)
EXTENDS Integers, Sequences, FiniteSets, TLC

(***************************************************************************)
(* Bounds of the model.                                                    *)
(***************************************************************************)
\* Largest max_retries a Retry wrapper is constructed with.
MaxRetries == 2

\* The base tool's behaviour is scripted for this many invocations: one more
\* than the largest number of attempts retry_invoke may make.
ScriptLen == MaxRetries + 2

\* Largest number of lines that follow the first line of a text handed to
\* the parser.
MaxBodyLines == 3

\* Operations the application threads start in one run.
MaxOps == 5

\* The longest list of results given to tool_results_to_prompts.
MaxResults == 2

\* The most often the base tool of a Retry is registered.
MaxRegistrations == 2

(***************************************************************************)
(* Python values shared by the components.                                 *)
(***************************************************************************)
\* Python's None.  Every Python value of the model is a record with the
\* fields type and v, so that any two of them can be compared.
None == [type |-> "NoneType", v |-> <<>>]

(***************************************************************************)
(*                       agents/flow/retry.py                              *)
(***************************************************************************)
VARIABLES
    max_retries,     \* Retry._max_retries
    exceptions_arg,  \* the `exceptions` argument Retry.__init__ was given
    exceptions,      \* Retry._exceptions: a tuple of exception classes
    delay,           \* Retry._delay
    script,          \* outcome of the base tool's i-th invocation
    rpc,             \* position of the retry_invoke call
    attempts,        \* local of retry_invoke
    last_exception,  \* local of retry_invoke
    invoked,         \* number of self._tool.invoke calls made so far
    sleeps,          \* number of time.sleep(self._delay) calls made so far
    outcome          \* what retry_invoke gave its caller

retryVars == <<max_retries, exceptions_arg, exceptions, delay, script, rpc,
               attempts, last_exception, invoked, sleeps, outcome>>

\* Python's class hierarchy on the exception classes of the model:
\* BaseException, Exception, ValueError, LookupError, KeyError and
\* KeyboardInterrupt.
Parent(c) ==
    CASE c = "Exception"         -> "BaseException"
      [] c = "KeyboardInterrupt" -> "BaseException"
      [] c = "ValueError"        -> "Exception"
      [] c = "LookupError"       -> "Exception"
      [] c = "KeyError"          -> "LookupError"
      [] OTHER                   -> "BaseException"

RECURSIVE IsSubclass(_, _)
IsSubclass(c, d) ==
    IF c = d THEN TRUE
    ELSE IF c = "BaseException" THEN FALSE
    ELSE IsSubclass(Parent(c), d)

\* The kinds of exception the base tool may raise.
ToolRaises == {"ValueError", "KeyError", "KeyboardInterrupt"}

\* What one invocation of the base tool does.
ToolOutcomes == {"ok"} \cup ToolRaises

\* The exception object raised by the base tool's i-th invocation.
ToolException(kind, i) == [type |-> kind, v |-> <<i>>]

\* The value returned by the base tool's i-th invocation.
ToolResult(i) == [type |-> "result", v |-> <<i>>]

\* The `exceptions` argument of Retry.__init__: None, one class, or a list.
ExceptionsArgs ==
    {[form |-> "none", classes |-> <<>>]}
    \cup {[form |-> "class", classes |-> <<c>>] :
             c \in {"ValueError", "LookupError"}}
    \cup {[form |-> "list", classes |-> l] :
             l \in {<<>>, <<"ValueError">>, <<"KeyError", "ValueError">>}}

\* Retry.__init__'s normalisation of `exceptions` to a tuple of classes.
NormalizeExceptionsDefaultOnly(arg) == <<"Exception">>

NormalizeExceptions(arg) ==
    IF arg.form = "none" THEN <<"Exception">>
    ELSE IF arg.form = "list" THEN arg.classes
    ELSE <<arg.classes[1]>>

\* `except self._exceptions as e`: the clause catches an exception that is an
\* instance of one of the classes of the tuple.
Catches(excs, kind) ==
    \E i \in 1..Len(excs) : IsSubclass(kind, excs[i])

\* `attempts <= self._max_retries`: the loop test and the test after a failure.
WithinBudgetStrict(a, m) == a < m

WithinBudget(a, m) == a <= m

\* `last_exception = e`
KeepFirstException(prev, e) == IF prev = None THEN e ELSE prev

RecordException(prev, e) == e

RetryConstructed ==
    /\ max_retries \in -1..MaxRetries
    /\ exceptions_arg \in ExceptionsArgs
    /\ exceptions = NormalizeExceptions(exceptions_arg)
    /\ delay \in {0, 1}
    /\ script \in [1..ScriptLen -> ToolOutcomes]
    /\ rpc = "idle"
    /\ attempts = 0
    /\ last_exception = None
    /\ invoked = 0
    /\ sleeps = 0
    /\ outcome = None

\* retry_invoke is called: lines 80-81.
RetryInvoke ==
    /\ rpc = "idle"
    /\ attempts' = 0
    /\ last_exception' = None
    /\ rpc' = "while"
    /\ UNCHANGED <<max_retries, exceptions_arg, exceptions, delay, script,
                   invoked, sleeps, outcome>>

\* The loop test of line 83.
WhileTest ==
    /\ rpc = "while"
    /\ rpc' = IF WithinBudget(attempts, max_retries) THEN "try" ELSE "raise"
    /\ UNCHANGED <<max_retries, exceptions_arg, exceptions, delay, script,
                   attempts, last_exception, invoked, sleeps, outcome>>

\* One pass of the loop body, lines 84-94: the base tool is invoked once.
TryInvoke ==
    /\ rpc = "try"
    /\ invoked < ScriptLen
    /\ invoked' = invoked + 1
    /\ LET i == invoked + 1
           o == script[i]
       IN  IF o = "ok"
           THEN \* line 85: return self._tool.invoke(...)
                /\ outcome' = [kind |-> "returned", value |-> ToolResult(i)]
                /\ rpc' = "done"
                /\ UNCHANGED <<attempts, last_exception, sleeps>>
           ELSE IF Catches(exceptions, o)
           THEN \* lines 86-94
                /\ last_exception' =
                       RecordException(last_exception, ToolException(o, i))
                /\ attempts' = attempts + 1
                /\ IF WithinBudget(attempts + 1, max_retries)
                   THEN /\ sleeps' = IF delay > 0 THEN sleeps + 1 ELSE sleeps
                        /\ rpc' = "while"
                   ELSE /\ sleeps' = sleeps
                        /\ rpc' = "raise"
                /\ UNCHANGED outcome
           ELSE \* no except clause matches: the exception leaves the call
                /\ outcome' = [kind |-> "raised", value |-> ToolException(o, i)]
                /\ rpc' = "done"
                /\ UNCHANGED <<attempts, last_exception, sleeps>>
    /\ UNCHANGED <<max_retries, exceptions_arg, exceptions, delay, script>>

\* Line 97: raise last_exception.  Raising None is a TypeError in Python.
RaiseLast ==
    /\ rpc = "raise"
    /\ outcome' = [kind |-> "raised",
                   value |-> IF last_exception = None
                             THEN [type |-> "TypeError", v |-> <<>>]
                             ELSE last_exception]
    /\ rpc' = "done"
    /\ UNCHANGED <<max_retries, exceptions_arg, exceptions, delay, script,
                   attempts, last_exception, invoked, sleeps>>

(***************************************************************************)
(*                     agents/backends/react.py                            *)
(*                                                                         *)
(* A text is a sequence of lexemes: the four directive keywords, the       *)
(* whitespace lexemes " " and "\n", and payload lexemes (a word or a JSON  *)
(* document).  Python's str operations are modelled on these sequences.    *)
(***************************************************************************)
VARIABLES
    text,        \* the model's reply handed to the parser
    result,      \* what parse_for_result(text) gave its caller
    tool_calls,  \* what parse_for_tool_calls(text) gave its caller
    max_simultaneous_tools  \* what __init__ gave BaseBackend.__init__

parseVars == <<text, result, tool_calls, max_simultaneous_tools>>

\* A Python str with the given content.
Str(s) == [type |-> "str", v |-> s]

\* The lexemes str.strip() removes.
Whitespace == {" ", "\n"}

RECURSIVE LStrip(_)
LStrip(s) ==
    IF s = <<>> THEN <<>>
    ELSE IF Head(s) \in Whitespace THEN LStrip(Tail(s))
    ELSE s

RECURSIVE RStrip(_)
RStrip(s) ==
    IF s = <<>> THEN <<>>
    ELSE IF s[Len(s)] \in Whitespace THEN RStrip(SubSeq(s, 1, Len(s) - 1))
    ELSE s

\* str.strip()
Strip(s) == RStrip(LStrip(s))

\* The first position of lexeme x in s, 0 when there is none.
IndexOf(s, x) ==
    IF \E i \in 1..Len(s) : s[i] = x
    THEN CHOOSE i \in 1..Len(s) :
             s[i] = x /\ \A j \in 1..(i - 1) : s[j] # x
    ELSE 0

\* str.split("\n")
RECURSIVE SplitLines(_)
SplitLines(s) ==
    LET i == IndexOf(s, "\n")
    IN  IF i = 0 THEN <<s>>
        ELSE <<SubSeq(s, 1, i - 1)>> \o SplitLines(SubSeq(s, i + 1, Len(s)))

\* "\n".join(lines)
RECURSIVE JoinLines(_)
JoinLines(lines) ==
    IF lines = <<>> THEN <<>>
    ELSE IF Len(lines) = 1 THEN lines[1]
    ELSE lines[1] \o <<"\n">> \o JoinLines(Tail(lines))

\* line.startswith(keyword)
StartsWith(line, keyword) == Len(line) >= 1 /\ line[1] = keyword

\* line.split(keyword, 1)[1], for a line that holds the keyword
AfterFirst(line, keyword) ==
    SubSeq(line, IndexOf(line, keyword) + 1, Len(line))

\* json.loads: the Python value of a JSON document, or JSONDecodeError.
JsonLoads(s) ==
    IF Len(s) # 1 THEN [ok |-> FALSE, value |-> None]
    ELSE CASE s[1] = "{\"q\": \"cats\"}" ->
                  [ok |-> TRUE, value |-> [type |-> "dict", v |-> <<"q", "cats">>]]
           [] s[1] = "[]" ->
                  [ok |-> TRUE, value |-> [type |-> "list", v |-> <<>>]]
           [] s[1] = "5" ->
                  [ok |-> TRUE, value |-> [type |-> "int", v |-> <<"5">>]]
           [] s[1] = "\"s\"" ->
                  [ok |-> TRUE, value |-> [type |-> "str", v |-> <<"s">>]]
           [] s[1] = "true" ->
                  [ok |-> TRUE, value |-> [type |-> "bool", v |-> <<"True">>]]
           [] s[1] = "null" ->
                  [ok |-> TRUE, value |-> None]
           [] OTHER -> [ok |-> FALSE, value |-> None]

\* The results dict of __parse, lines 45-50, with ActionInput for "Action Input".
EmptyResults ==
    [Thought |-> None, Action |-> None, ActionInput |-> None, Answer |-> None]

\* Lines 52-56: the Thought line is popped off the front, or the text is
\* refused.
ExtractThoughtLenient(lines) ==
    [ok |-> TRUE,
     thought |-> IF lines # <<>> /\ StartsWith(lines[1], "Thought:")
                 THEN Strip(AfterFirst(lines[1], "Thought:"))
                 ELSE <<>>,
     rest |-> IF lines # <<>> THEN Tail(lines) ELSE <<>>]

ExtractThought(lines) ==
    IF lines # <<>> /\ StartsWith(lines[1], "Thought:")
    THEN [ok |-> TRUE,
          thought |-> Strip(AfterFirst(lines[1], "Thought:")),
          rest |-> Tail(lines)]
    ELSE [ok |-> FALSE, thought |-> <<>>, rest |-> <<>>]

\* Lines 65-71: the Action Input remainder as JSON, else as the raw string.
ActionInputValue(line) ==
    LET action_input_str == Strip(AfterFirst(line, "Action Input:"))
        loaded == JsonLoads(action_input_str)
    IN  IF loaded.ok THEN loaded.value ELSE Str(action_input_str)

\* Lines 72-78: the Answer remainder, a newline, and the remaining lines.
AnswerValue(line, lines) ==
    Str(Strip(AfterFirst(line, "Answer:")) \o <<"\n">> \o JoinLines(lines))

\* Line 79: the lines left to scan once the Answer line is read: `break`
\* leaves the loop.
AfterAnswerScanOn(rest) == rest

AfterAnswer(rest) == <<>>

\* Lines 58-79: the scan of the lines after the Thought line.
RECURSIVE Scan(_, _)
Scan(lines, results) ==
    IF lines = <<>> THEN results
    ELSE LET line == Head(lines)
             rest == Tail(lines)
         IN  IF Strip(line) = <<>> THEN Scan(rest, results)
             ELSE IF StartsWith(line, "Action:")
             THEN Scan(rest,
                       [results EXCEPT
                           !.Action = Str(Strip(AfterFirst(line, "Action:")))])
             ELSE IF StartsWith(line, "Action Input:")
             THEN Scan(rest,
                       [results EXCEPT !.ActionInput = ActionInputValue(line)])
             ELSE IF StartsWith(line, "Answer:")
             THEN Scan(AfterAnswer(rest),
                       [results EXCEPT !.Answer = AnswerValue(line, rest)])
             ELSE Scan(rest, results)

\* Lines 81-83: an Action without an Action Input raises ValueError.
MissingActionInput(results) ==
    results.Action # None /\ results.ActionInput = None

\* Lines 85-88: the Answer an Action without one is given.
SynthesizeAnswer(results) ==
    IF results.Action # None /\ results.Answer = None
    THEN [results EXCEPT !.Answer = Str(<<>>)]
    ELSE results

\* Lines 17-21 and 95: ReActResponse(**results) validates the field types.
\* Thought, Action and Answer are always str or None here; ActionInput is
\* declared Optional[Dict[str, Any]], which accepts neither an int nor a
\* non-empty str (pydantic 1 and pydantic 2 agree on the values of this model).
PydanticAccepts(results) ==
    /\ results.Thought.type = "str"
    /\ results.Action.type \in {"str", "NoneType"}
    /\ results.ActionInput.type \in {"dict", "NoneType"}
    /\ results.Answer.type \in {"str", "NoneType"}

\* An exception leaving __parse.
ParseRaises(kind) == [error |-> kind, response |-> EmptyResults]

\* ReActBackend.__parse, lines 43-95.
Parse(t) ==
    LET lines == SplitLines(Strip(t))
        th == ExtractThought(lines)
    IN  IF ~th.ok THEN ParseRaises("FormatException")
        ELSE LET scanned ==
                     Scan(th.rest, [EmptyResults EXCEPT !.Thought = Str(th.thought)])
             IN  IF MissingActionInput(scanned) THEN ParseRaises("ValueError")
                 ELSE IF ~PydanticAccepts(SynthesizeAnswer(scanned))
                 THEN ParseRaises("ValidationError")
                 ELSE [error |-> "none", response |-> SynthesizeAnswer(scanned)]

\* `not response.Action`
Falsy(x) == x = None \/ (x.type = "str" /\ x.v = <<>>)

\* Lines 105-114: the list parse_for_tool_calls returns.
ToolCallsInverted(response) ==
    IF ~Falsy(response.Action) THEN <<>>
    ELSE << <<response.Action, response.ActionInput>> >>

ToolCallsOf(response) ==
    IF Falsy(response.Action) THEN <<>>
    ELSE << <<response.Action, response.ActionInput>> >>

\* The lines a reply is made of.
ThoughtLines ==
    {<<"Thought:", " ", "t">>, <<" ", "Thought:", " ", "t">>, <<"Thought:">>}

ActionLines == {<<"Action:", " ", "search", " ">>, <<"Action:">>}

\* The JSON documents an Action Input line may hold: an object, a number, a
\* string and null.
JsonDocuments == {"{\"q\": \"cats\"}", "5", "\"s\"", "null"}

ActionInputLines ==
    {<<"Action Input:", " ", p>> : p \in JsonDocuments \cup {"cats"}}

AnswerLines == {<<"Answer:", " ", "Paris">>}

OtherLines == {<<>>, <<"w">>}

\* The choices for the first line of a reply, and for each line after it.
FirstLineChoices ==
    ThoughtLines \cup OtherLines
        \cup {<<"Action:", " ", "search", " ">>} \cup AnswerLines

BodyLineChoices ==
    {<<"Thought:", " ", "t">>} \cup ActionLines \cup ActionInputLines
        \cup AnswerLines \cup OtherLines

\* The replies: a first line and at most MaxBodyLines lines after it.
Texts ==
    {JoinLines(<<f>> \o b) :
        f \in FirstLineChoices,
        b \in UNION {[1..n -> BodyLineChoices] : n \in 0..MaxBodyLines}}

\* The backend as __init__ leaves it (line 32), no text parsed yet.
ParserIdle ==
    /\ max_simultaneous_tools = 1
    /\ result = [kind |-> "idle", value |-> None, error |-> "none"]
    /\ tool_calls = [kind |-> "idle", value |-> <<>>, error |-> "none"]

\* parse_for_result(text), lines 97-98.
ParseForResult ==
    /\ result.kind = "idle"
    /\ LET p == Parse(text)
       IN  result' =
               IF p.error # "none"
               THEN [kind |-> "raised", value |-> None, error |-> p.error]
               ELSE [kind |-> "returned", value |-> p.response.Answer,
                     error |-> "none"]
    /\ UNCHANGED <<text, tool_calls, max_simultaneous_tools>>

\* parse_for_tool_calls(text), lines 100-114.
ParseForToolCalls ==
    /\ tool_calls.kind = "idle"
    /\ LET p == Parse(text)
       IN  tool_calls' =
               IF p.error # "none"
               THEN [kind |-> "raised", value |-> <<>>, error |-> p.error]
               ELSE [kind |-> "returned", value |-> ToolCallsOf(p.response),
                     error |-> "none"]
    /\ UNCHANGED <<text, result, max_simultaneous_tools>>

(***************************************************************************)
(* Several retry_invoke calls on one Retry wrapper.  The calls share the   *)
(* wrapper's attributes; each has its own frame.  time.sleep only lets     *)
(* the other calls run, which the interleaving of the steps allows anyway. *)
(***************************************************************************)
VARIABLES
    frames,          \* per call: its position and what it has done so far
    counters         \* the cells that hold attempts and last_exception

retryCallVars == <<frames, counters>>

\* The retry_invoke calls of a run; they may follow each other or overlap.
Calls == {"c1", "c2", "c3"}

\* Lines 80-81: attempts and last_exception are local variables, so every
\* call has a cell of its own.
CounterShared(c) == "c1"

CounterOf(c) == c

\* What one invocation of the base tool does in these runs.
CallOutcomes == {"ok", "ValueError", "KeyboardInterrupt"}

NotCalled == [pc |-> "idle", invoked |-> 0, failures |-> 0, outcome |-> "none"]

\* One wrapper, constructed with the default `exceptions`, and no call yet.
RetryShared ==
    /\ max_retries \in 0..MaxRetries
    /\ exceptions_arg = [form |-> "none", classes |-> <<>>]
    /\ exceptions = NormalizeExceptions(exceptions_arg)
    /\ delay = 0
    /\ script = [i \in 1..ScriptLen |-> "ok"]
    /\ rpc = "idle"
    /\ attempts = 0
    /\ last_exception = None
    /\ invoked = 0
    /\ sleeps = 0
    /\ outcome = None
    /\ frames = [c \in Calls |-> NotCalled]
    /\ counters = [c \in Calls |-> [attempts |-> 0, last_exception |-> None]]

\* Call c of retry_invoke begins: lines 80-81.
RetryInvokeCall(c) ==
    /\ frames[c].pc = "idle"
    /\ counters' = [counters EXCEPT ![CounterOf(c)] =
                       [attempts |-> 0, last_exception |-> None]]
    /\ frames' = [frames EXCEPT ![c].pc = "while"]

\* The loop test of line 83 in call c.
WhileTestCall(c) ==
    /\ frames[c].pc = "while"
    /\ frames' = [frames EXCEPT ![c].pc =
                    IF WithinBudget(counters[CounterOf(c)].attempts, max_retries)
                    THEN "try" ELSE "raise"]
    /\ UNCHANGED counters

\* One pass of the loop body in call c, lines 84-94.
TryInvokeCall(c) ==
    /\ frames[c].pc = "try"
    /\ \E o \in CallOutcomes :
           LET i == frames[c].invoked + 1
               cell == counters[CounterOf(c)]
           IN  IF o = "ok"
               THEN /\ frames' = [frames EXCEPT ![c].pc = "done",
                                              ![c].invoked = i,
                                              ![c].outcome = "returned"]
                    /\ UNCHANGED counters
               ELSE IF Catches(exceptions, o)
               THEN /\ counters' =
                           [counters EXCEPT ![CounterOf(c)] =
                               [attempts |-> cell.attempts + 1,
                                last_exception |->
                                    RecordException(cell.last_exception,
                                                    ToolException(o, i))]]
                    /\ frames' =
                           [frames EXCEPT
                               ![c].pc =
                                   IF WithinBudget(cell.attempts + 1, max_retries)
                                   THEN "while" ELSE "raise",
                               ![c].invoked = i,
                               ![c].failures = @ + 1]
               ELSE /\ frames' = [frames EXCEPT ![c].pc = "done",
                                              ![c].invoked = i,
                                              ![c].outcome = "unmatched"]
                    /\ UNCHANGED counters

\* Line 97 in call c: the budget is used up.
RaiseLastCall(c) ==
    /\ frames[c].pc = "raise"
    /\ frames' = [frames EXCEPT ![c].pc = "done", ![c].outcome = "exhausted"]
    /\ UNCHANGED counters

(***************************************************************************)
(* Retry.__init__, lines 29-64.                                            *)
(***************************************************************************)
VARIABLES
    init_args,       \* the arguments Retry.__init__ is called with
    tool_init        \* the arguments it hands to Tool.__init__, None before

retryInitVars == <<init_args, tool_init>>

\* The base tools a wrapper is built around.
BaseTools ==
    [name : {Str(<<"search">>), Str(<<"wiki">>)},
     description : {Str(<<"looks things up">>)},
     args : {<<>>, <<"query">>, <<"query", "limit">>},
     examples : {<<>>}]

\* The `name` and `description` arguments: left out, empty, or given.
NameArgs == {None, Str(<<>>), Str(<<"custom">>)}

DescriptionArgs == {None, Str(<<>>), Str(<<"custom description">>)}

InitArgs ==
    [tool : BaseTools,
     max_retries : 0..MaxRetries,
     exceptions : ExceptionsArgs,
     delay : {0, 1},
     name : NameArgs,
     description : DescriptionArgs]

\* `not name` and `not description`: None and the empty string are false.
NotGiven(x) == x = None \/ (x.type = "str" /\ x.v = <<>>)

\* Line 53: f"{tool.name}::retry_{max_retries}".
BaseToolName(tool, m) == tool.name

DefaultName(tool, m) == Str(tool.name.v \o <<"::retry_", ToString(m)>>)

\* Retry.__init__ is about to run.
RetryInitCalled ==
    /\ init_args \in InitArgs
    /\ tool_init = None
    /\ max_retries = 0
    /\ exceptions_arg = [form |-> "none", classes |-> <<>>]
    /\ exceptions = <<"Exception">>
    /\ delay = 0
    /\ script = [i \in 1..ScriptLen |-> "ok"]
    /\ rpc = "idle"
    /\ attempts = 0
    /\ last_exception = None
    /\ invoked = 0
    /\ sleeps = 0
    /\ outcome = None

\* Retry.__init__, lines 40-64.
RetryInit ==
    /\ tool_init = None
    /\ max_retries' = init_args.max_retries
    /\ delay' = init_args.delay
    /\ exceptions_arg' = init_args.exceptions
    /\ exceptions' = NormalizeExceptions(init_args.exceptions)
    /\ tool_init' =
           [name |-> IF NotGiven(init_args.name)
                     THEN DefaultName(init_args.tool, init_args.max_retries)
                     ELSE init_args.name,
            args |-> init_args.tool.args,
            description |-> IF NotGiven(init_args.description)
                            THEN init_args.tool.description
                            ELSE init_args.description,
            func |-> "retry_invoke",
            examples |-> init_args.tool.examples]
    /\ UNCHANGED <<init_args, script, rpc, attempts, last_exception, invoked,
                   sleeps, outcome>>

(***************************************************************************)
(*                    agents/registrar/registrar.py                        *)
(*                                                                         *)
(* Application threads call the Registrar's class methods and invoke       *)
(* registered tools; every method body runs under the class lock.  The     *)
(* executor's workers run the submitted listener tasks.                    *)
(***************************************************************************)
VARIABLES
    reg_lock,        \* Registrar._lock: the thread that holds it, or NoThread
    reg_enabled,     \* Registrar._enabled
    reg_tools,       \* Registrar._tools: an insertion-ordered dict, id -> tool
    reg_listeners,   \* Registrar.__on_tool_call_listeners
    tool_hooks,      \* per tool: how often _on_tool_call is among its listeners
    submitted,       \* the tasks given to Registrar.__executor, in order
    hook_calls,      \* every call of _on_tool_call, in the order of the calls
    invocations,     \* every tool invocation, in the order they started
    thr,             \* per thread: the call it is in and its position
    snap,            \* the list get_tools() returned last
    ops,             \* number of operations started so far
    register_calls   \* the tools register was called for, and whether two
                     \* register calls were ever in progress at once

regVars == <<reg_lock, reg_enabled, reg_tools, reg_listeners, tool_hooks,
             submitted, hook_calls, invocations, thr, snap, ops,
             register_calls>>

Threads == {"T1", "T2"}

NoThread == "none"

\* Tool objects; t1 and t2 are two tools with the same identity.
Tools == {"t1", "t2", "t3"}

ToolId(tool) == IF tool = "t3" THEN "b" ELSE "a"

\* External listeners, and what each does when it is called: L1 returns,
\* L2 raises, L3 never returns.
Listeners == {"L1", "L2", "L3"}

Behaviour(listener) ==
    CASE listener = "L1" -> "return"
      [] listener = "L2" -> "raise"
      [] listener = "L3" -> "hang"

\* A thread that is in no call.
Idle ==
    [pc |-> "idle", op |-> "none", tool |-> "none", idx |-> 0, call |-> 0,
     inv |-> 0, left |-> 0]

\* No list held.
NoSnapshot == [held |-> FALSE, alias |-> FALSE, items |-> <<>>, taken |-> <<>>]

\* Lines 9-16: the class attributes as the class statement leaves them.
RegistrarLoaded ==
    /\ reg_lock = NoThread
    /\ reg_enabled = FALSE
    /\ reg_tools = <<>>
    /\ reg_listeners = <<>>
    /\ tool_hooks = [t \in Tools |-> 0]
    /\ submitted = <<>>
    /\ hook_calls = <<>>
    /\ invocations = <<>>
    /\ thr = [t \in Threads |-> Idle]
    /\ snap = NoSnapshot
    /\ ops = 0
    /\ register_calls = [tools |-> {}, concurrent |-> FALSE]

\* `tool.id in cls._tools`: whether the key is present.
HasKey(d, id) == \E i \in 1..Len(d) : d[i].id = id

RegisteredOnlyNew(d, tool) == <<[id |-> ToolId(tool), tool |-> tool]>>

\* Line 26: cls._tools[tool.id] = tool.  A new key goes to the end; a known
\* key keeps its place and gets the new value.
Registered(d, tool) ==
    IF HasKey(d, ToolId(tool))
    THEN [i \in 1..Len(d) |->
             IF d[i].id = ToolId(tool)
             THEN [id |-> ToolId(tool), tool |-> tool]
             ELSE d[i]]
    ELSE Append(d, [id |-> ToolId(tool), tool |-> tool])

\* cls._tools.values(), in the dict's order.
Values(d) == [i \in 1..Len(d) |-> d[i].tool]

\* Tool.add_on_call_listener: the tool's listener list gains one more entry.
AddOnCallListener(hooks, tool) == [hooks EXCEPT ![tool] = @ + 1]

\* Line 43: list(cls._tools.values()) is a new list.
GetToolsAlias(d) ==
    [held |-> TRUE, alias |-> TRUE, items |-> <<>>, taken |-> Values(d)]

GetToolsValue(d) ==
    [held |-> TRUE, alias |-> FALSE, items |-> Values(d), taken |-> Values(d)]

\* Line 36: whether the hook dispatches, given the flag it read.
DispatchAlways(flag) == TRUE

DispatchEnabled(flag) == flag

\* Line 38: cls.__executor.submit(listener, tool, ctx) queues the call and
\* returns a Future; the hook neither waits for the listener nor sees what
\* the listener raises.
RunInline(listener) ==
    [raises |-> Behaviour(listener) = "raise",
     blocks |-> Behaviour(listener) = "hang"]

SubmitEffect(listener) == [raises |-> FALSE, blocks |-> FALSE]

\* `with cls._lock`: a thread enters when no thread holds the lock.
MayAcquireAlways(holder) == TRUE

MayAcquire(holder) == holder = NoThread

\* A thread calls register: it is now at the `with` of line 23.
CallRegister(t) ==
    \E tool \in Tools :
        /\ thr[t].pc = "idle"
        /\ ops < MaxOps
        /\ ops' = ops + 1
        /\ thr' = [thr EXCEPT ![t] = [Idle EXCEPT !.pc = "wait",
                                                  !.op = "register",
                                                  !.tool = tool]]
        /\ register_calls' =
               [tools |-> register_calls.tools \cup {tool},
                concurrent |->
                    \/ register_calls.concurrent
                    \/ \E u \in Threads : thr[u].op = "register"]
        /\ UNCHANGED <<reg_lock, reg_enabled, reg_tools, reg_listeners,
                       tool_hooks, submitted, hook_calls, invocations, snap>>

\* A new call of _on_tool_call by thread t for invocation inv.
NewHookCall(inv, tool) ==
    [inv |-> inv, tool |-> tool, order |-> 0, enabled |-> FALSE,
     listeners |-> <<>>]

\* A registered tool is invoked: once the tool's function is over, the tool
\* calls its on-call listeners one after the other, each of them the
\* Registrar's hook.
Invoke(t) ==
    \E tool \in Tools :
        /\ thr[t].pc = "idle"
        /\ ops < MaxOps
        /\ tool_hooks[tool] > 0
        /\ ops' = ops + 1
        /\ invocations' = Append(invocations,
                                 [tool |-> tool, outcome |-> "running"])
        /\ hook_calls' =
               Append(hook_calls, NewHookCall(Len(invocations) + 1, tool))
        /\ thr' = [thr EXCEPT ![t] =
                      [Idle EXCEPT !.pc = "wait", !.op = "_on_tool_call",
                                   !.tool = tool,
                                   !.call = Len(hook_calls) + 1,
                                   !.inv = Len(invocations) + 1,
                                   !.left = tool_hooks[tool]]]
        /\ UNCHANGED <<reg_lock, reg_enabled, reg_tools, reg_listeners,
                       tool_hooks, submitted, snap,
                   register_calls>>

\* The number of hook calls that have taken the lock so far.
Acquisitions == Cardinality({c \in 1..Len(hook_calls) : hook_calls[c].order > 0})

\* _on_tool_call enters `with cls._lock:`, line 35.
Acquire(t) ==
    /\ thr[t].pc = "wait"
    /\ thr[t].op = "_on_tool_call"
    /\ MayAcquire(reg_lock)
    /\ reg_lock' = t
    /\ thr' = [thr EXCEPT ![t].pc = "locked", ![t].idx = 1]
    /\ hook_calls' = [hook_calls EXCEPT ![thr[t].call] =
                          [@ EXCEPT !.order = Acquisitions + 1,
                                    !.enabled = reg_enabled,
                                    !.listeners = reg_listeners]]
    /\ UNCHANGED <<reg_enabled, reg_tools, reg_listeners, tool_hooks,
                   submitted, invocations, snap, ops,
                   register_calls>>

\* _on_tool_call leaves the `with` block and returns.
Leave(t) ==
    /\ reg_lock' = NoThread
    /\ thr' = [thr EXCEPT ![t] = Idle]

\* register, lines 23-28: the thread enters when the lock is free; entering,
\* the body and leaving are one step for every other thread.
Register(t) ==
    /\ thr[t].pc = "wait"
    /\ thr[t].op = "register"
    /\ MayAcquire(reg_lock)
    /\ reg_tools' = Registered(reg_tools, thr[t].tool)
    /\ tool_hooks' = AddOnCallListener(tool_hooks, thr[t].tool)
    /\ thr' = [thr EXCEPT ![t] = Idle]
    /\ UNCHANGED <<reg_lock, reg_enabled, reg_listeners, submitted,
                   hook_calls, invocations, snap, ops, register_calls>>

\* The remaining methods run one statement under the lock.  A call that finds
\* the lock taken waits at the `with` having done nothing, so it is the
\* call made once the lock is free: the call, the body and the return are
\* one step.
WithLock(t) ==
    /\ thr[t].pc = "idle"
    /\ ops < MaxOps
    /\ MayAcquire(reg_lock)
    /\ ops' = ops + 1
    /\ UNCHANGED <<reg_lock, thr, register_calls>>

\* get_tools, lines 42-43.
GetTools(t) ==
    /\ WithLock(t)
    /\ snap' = GetToolsValue(reg_tools)
    /\ UNCHANGED <<reg_enabled, reg_tools, reg_listeners, tool_hooks,
                   submitted, hook_calls, invocations>>

\* add_tool_call_listener, lines 49-50.  Each listener is added at most once.
AddToolCallListener(t) ==
    \E l \in Listeners :
        /\ ~\E i \in 1..Len(reg_listeners) : reg_listeners[i] = l
        /\ WithLock(t)
        /\ reg_listeners' = Append(reg_listeners, l)
        /\ UNCHANGED <<reg_enabled, reg_tools, tool_hooks, submitted,
                       hook_calls, invocations, snap>>

\* cls._enabled = flag, the body of enable, disable and set_auto_registry.
SetEnabled(t, flag) ==
    /\ WithLock(t)
    /\ reg_enabled' = flag
    /\ UNCHANGED <<reg_tools, reg_listeners, tool_hooks, submitted,
                   hook_calls, invocations, snap>>

\* enable, lines 54-55.
Enable(t) == SetEnabled(t, TRUE)

\* disable, lines 59-60.
Disable(t) == SetEnabled(t, FALSE)

\* set_auto_registry, lines 64-65.
SetAutoRegistry(t) == \E enabled \in BOOLEAN : SetEnabled(t, enabled)

\* is_enabled, lines 69-70.
IsEnabled(t) ==
    /\ WithLock(t)
    /\ UNCHANGED <<reg_enabled, reg_tools, reg_listeners, tool_hooks,
                   submitted, hook_calls, invocations, snap>>

\* The invocation of thread t is over with the given outcome.
InvocationOver(t, how) ==
    invocations' = [invocations EXCEPT ![thr[t].inv].outcome = how]

\* _on_tool_call, lines 36-38: one pass of the loop over the listeners.
HookSubmit(t) ==
    /\ thr[t].pc = "locked"
    /\ thr[t].op = "_on_tool_call"
    /\ DispatchEnabled(reg_enabled)
    /\ thr[t].idx <= Len(reg_listeners)
    /\ LET listener == reg_listeners[thr[t].idx]
           effect == SubmitEffect(listener)
       IN  /\ ~effect.blocks
           /\ IF effect.raises
              THEN \* the exception leaves the hook and the tool's invoke
                   /\ InvocationOver(t, "raised")
                   /\ Leave(t)
                   /\ UNCHANGED submitted
              ELSE /\ submitted' =
                          Append(submitted,
                                 [call |-> thr[t].call, listener |-> listener,
                                  status |-> "pending"])
                   /\ thr' = [thr EXCEPT ![t].idx = @ + 1]
                   /\ UNCHANGED <<reg_lock, invocations>>
    /\ UNCHANGED <<reg_enabled, reg_tools, reg_listeners, tool_hooks,
                   hook_calls, snap, ops,
                   register_calls>>

\* _on_tool_call returns to the tool, which calls its next listener or ends
\* the invocation.
HookReturn(t) ==
    /\ thr[t].pc = "locked"
    /\ thr[t].op = "_on_tool_call"
    /\ ~DispatchEnabled(reg_enabled) \/ thr[t].idx > Len(reg_listeners)
    /\ reg_lock' = NoThread
    /\ IF thr[t].left > 1
       THEN /\ hook_calls' =
                   Append(hook_calls, NewHookCall(thr[t].inv, thr[t].tool))
            /\ thr' = [thr EXCEPT ![t].pc = "wait", ![t].idx = 0,
                                  ![t].call = Len(hook_calls) + 1,
                                  ![t].left = @ - 1]
            /\ UNCHANGED invocations
       ELSE /\ InvocationOver(t, "returned")
            /\ thr' = [thr EXCEPT ![t] = Idle]
            /\ UNCHANGED hook_calls
    /\ UNCHANGED <<reg_enabled, reg_tools, reg_listeners, tool_hooks,
                   submitted, snap, ops,
                   register_calls>>

\* The caller of get_tools() empties the list it was given.
ClearSnapshot(t) ==
    /\ thr[t].pc = "idle"
    /\ ops < MaxOps
    /\ snap.held
    /\ snap.taken # <<>>
    /\ ops' = ops + 1
    /\ snap' = [snap EXCEPT !.items = <<>>, !.taken = <<>>]
    /\ reg_tools' = IF snap.alias THEN <<>> ELSE reg_tools
    /\ UNCHANGED <<reg_lock, reg_enabled, reg_listeners, tool_hooks,
                   submitted, hook_calls, invocations, thr,
                   register_calls>>

\* A worker of the executor has run a submitted task to its end: the listener
\* returned or raised, and what it raised is kept in the task's Future.  The
\* pool has more workers than a run has tasks, so the tasks end in any order;
\* the task of a listener that hangs stays pending for ever.
RunTask ==
    /\ \E i \in 1..Len(submitted) :
           /\ submitted[i].status = "pending"
           /\ Behaviour(submitted[i].listener) # "hang"
           /\ submitted' =
                  [submitted EXCEPT ![i].status =
                       IF Behaviour(submitted[i].listener) = "raise"
                       THEN "raised" ELSE "returned"]
    /\ UNCHANGED <<reg_lock, reg_enabled, reg_tools, reg_listeners,
                   tool_hooks, hook_calls, invocations, thr, snap, ops,
                   register_calls>>

(***************************************************************************)
(*         agents/backends/react.py: tool_results_to_prompts               *)
(***************************************************************************)
VARIABLES
    prompt,          \* the list of messages the backend is given
    tool_results,    \* the (name, args, result) tuples it is given
    prompt_at_call,  \* the messages of the list when the call was made
    prompts_pc       \* position of the tool_results_to_prompts call

promptVars == <<prompt, tool_results, prompt_at_call, prompts_pc>>

\* A Python int.
PyInt(n) == [type |-> "int", v |-> <<n>>]

Digit(d) == <<"0", "1", "2", "3", "4", "5", "6", "7", "8", "9">>[d + 1]

\* str(n) of an int.
RECURSIVE Decimal(_)
Decimal(n) ==
    IF n < 0 THEN <<"-">> \o Decimal(-n)
    ELSE IF n < 10 THEN <<Digit(n)>>
    ELSE Decimal(n \div 10) \o <<Digit(n % 10)>>

\* f"{value}": format(value, ""), the text of a str and str(n) of an int.
Format(value) ==
    IF value.type = "str" THEN value.v ELSE Decimal(value.v[1])

\* Lines 128-131: a str goes between double quotes.
FormatArgValue(value) ==
    IF value.type = "str" THEN <<"\"">> \o value.v \o <<"\"">>
    ELSE Format(value)

\* Lines 121-131: the loop over args.items(), in the dict's order.
RECURSIVE FormatArgs(_, _)
FormatArgs(items, first_tool) ==
    IF items = <<>> THEN <<>>
    ELSE (IF first_tool THEN <<>> ELSE <<",", " ">>)
         \o <<items[1].arg, "=">>
         \o FormatArgValue(items[1].value)
         \o FormatArgs(Tail(items), FALSE)

\* Lines 120-133: the text `out` built for one result.
Out(r) ==
    <<"---", "\n", r.name, "(">>
    \o FormatArgs(r.args, TRUE)
    \o <<")", " ", "returned:", "\n">> \o Format(r.result) \o <<"\n">>

\* Lines 134-139: the message appended for one result.
ResultMessage(r) == [role |-> "system", content |-> Out(r)]

\* The messages a conversation holds before tool results are added.
UserMessage == [role |-> "user", content |-> <<"hi">>]

Prompts == {<<>>, <<UserMessage>>}

\* The dicts of arguments, as the sequence of their items.
ArgItems ==
    {<<>>,
     <<[arg |-> "q", value |-> Str(<<"cats">>)]>>,
     <<[arg |-> "q", value |-> Str(<<"cats">>)],
       [arg |-> "n", value |-> PyInt(123)]>>,
     <<[arg |-> "n", value |-> PyInt(-4)],
       [arg |-> "q", value |-> Str(<<>>)]>>}

ToolResults ==
    [name : {"search", "calc"}, args : ArgItems,
     result : {Str(<<"ok">>), PyInt(70)}]

RECURSIVE SeqsUpTo(_, _)
SeqsUpTo(S, n) ==
    IF n = 0 THEN {<<>>}
    ELSE SeqsUpTo(S, n - 1)
         \cup {Append(q, x) : q \in {r \in SeqsUpTo(S, n - 1) : Len(r) = n - 1},
                              x \in S}

\* The backend has a prompt and the results of the tools it ran.
PromptsIdle ==
    /\ prompt \in Prompts
    /\ tool_results \in SeqsUpTo(ToolResults, MaxResults)
    /\ prompt_at_call = prompt
    /\ prompts_pc = "idle"

\* The loop of lines 119-139 over a list of results: the list `prompt` with
\* one message appended per result.
RECURSIVE Appended(_, _)
Appended(messages, rs) ==
    IF rs = <<>> THEN messages
    ELSE Appended(Append(messages, ResultMessage(rs[1])), Tail(rs))

\* tool_results_to_prompts(prompt, results), lines 116-140.
ToolResultsToPrompts ==
    /\ prompts_pc = "idle"
    /\ prompt' = Appended(prompt, tool_results)
    /\ prompts_pc' = "returned"
    /\ UNCHANGED <<tool_results, prompt_at_call>>

(***************************************************************************)
(*      Retry over a base tool that is registered with the Registrar       *)
(***************************************************************************)
VARIABLES
    hook_events  \* number of _on_tool_call calls the base tool has made

eventVars == <<hook_events>>

\* The tool the Retry wraps.
BaseTool == "t1"

\* The base tool calls each entry of its listener list once when an
\* invocation of it completes or fails.
Notified(events, hooks) == events + hooks

\* Registrar.register(base tool), lines 21-28, by the one thread there is,
\* before the wrapped call.
RegisterBaseTool ==
    /\ rpc = "idle"
    /\ tool_hooks[BaseTool] < MaxRegistrations
    /\ reg_tools' = Registered(reg_tools, BaseTool)
    /\ tool_hooks' = AddOnCallListener(tool_hooks, BaseTool)
    /\ register_calls' =
           [register_calls EXCEPT !.tools = @ \cup {BaseTool}]
    /\ UNCHANGED <<reg_lock, reg_enabled, reg_listeners, submitted,
                   hook_calls, invocations, thr, snap, ops, hook_events>>

\* One pass of the loop body (lines 84-94) over a registered base tool:
\* self._tool.invoke of line 85 is the base tool's own invoke, which calls
\* its listeners whether its function returned or raised.
TryInvokeBaseTool ==
    /\ TryInvoke
    /\ hook_events' = Notified(hook_events, tool_hooks[BaseTool])

(***************************************************************************)
(*                         Specifications                                  *)
(***************************************************************************)
vars == <<retryVars, retryCallVars, retryInitVars, parseVars, regVars,
          promptVars, eventVars>>

\* The variables the Registrar's steps leave alone, and those the steps of
\* the retry_invoke calls, of the one retry_invoke call, of the parser and of
\* tool_results_to_prompts leave alone.
nonRegVars == <<retryVars, retryCallVars, retryInitVars, parseVars,
                promptVars, eventVars>>

nonCallVars == <<retryVars, retryInitVars, parseVars, regVars, promptVars,
                 eventVars>>

nonRetryVars == <<retryCallVars, retryInitVars, parseVars, regVars,
                  promptVars, eventVars>>

nonParseVars == <<retryVars, retryCallVars, retryInitVars, regVars,
                  promptVars, eventVars>>

nonPromptVars == <<retryVars, retryCallVars, retryInitVars, parseVars,
                   regVars, eventVars>>

\* The state of the component a specification is not about.
RetryUnused ==
    /\ max_retries = 0
    /\ exceptions_arg = [form |-> "none", classes |-> <<>>]
    /\ exceptions = <<"Exception">>
    /\ delay = 0
    /\ script = [i \in 1..ScriptLen |-> "ok"]
    /\ rpc = "idle"
    /\ attempts = 0
    /\ last_exception = None
    /\ invoked = 0
    /\ sleeps = 0
    /\ outcome = None

ParserUnused ==
    /\ text = <<>>
    /\ ParserIdle

RegistrarUnused == RegistrarLoaded

RetryCallsUnused ==
    /\ frames = [c \in Calls |-> NotCalled]
    /\ counters = [c \in Calls |-> [attempts |-> 0, last_exception |-> None]]

RetryInitUnused == init_args = None /\ tool_init = None

PromptsUnused ==
    /\ prompt = <<>>
    /\ tool_results = <<>>
    /\ prompt_at_call = <<>>
    /\ prompts_pc = "idle"

EventsUnused == hook_events = 0

OnlyRetry ==
    /\ RetryCallsUnused /\ RetryInitUnused /\ ParserUnused /\ RegistrarUnused
    /\ PromptsUnused

InitRetry == RetryConstructed /\ OnlyRetry /\ EventsUnused

NextRetry ==
    \/ RetryInvoke /\ UNCHANGED nonRetryVars
    \/ WhileTest /\ UNCHANGED nonRetryVars
    \/ TryInvoke /\ UNCHANGED nonRetryVars
    \/ RaiseLast /\ UNCHANGED nonRetryVars

SpecRetry == InitRetry /\ [][NextRetry]_vars

InitParse ==
    /\ text \in Texts /\ ParserIdle
    /\ RetryUnused /\ RetryCallsUnused /\ RetryInitUnused /\ RegistrarUnused
    /\ PromptsUnused /\ EventsUnused

NextParse ==
    \/ ParseForResult /\ UNCHANGED nonParseVars
    \/ ParseForToolCalls /\ UNCHANGED nonParseVars

SpecParse == InitParse /\ [][NextParse]_vars

InitRegistrar ==
    /\ RegistrarLoaded
    /\ RetryUnused /\ RetryCallsUnused /\ RetryInitUnused /\ ParserUnused
    /\ PromptsUnused /\ EventsUnused

NextRegistrar ==
    \/ \E t \in Threads : CallRegister(t) /\ UNCHANGED nonRegVars
    \/ \E t \in Threads : Register(t) /\ UNCHANGED nonRegVars
    \/ \E t \in Threads : GetTools(t) /\ UNCHANGED nonRegVars
    \/ \E t \in Threads : AddToolCallListener(t) /\ UNCHANGED nonRegVars
    \/ \E t \in Threads : Enable(t) /\ UNCHANGED nonRegVars
    \/ \E t \in Threads : Disable(t) /\ UNCHANGED nonRegVars
    \/ \E t \in Threads : SetAutoRegistry(t) /\ UNCHANGED nonRegVars
    \/ \E t \in Threads : IsEnabled(t) /\ UNCHANGED nonRegVars
    \/ \E t \in Threads : Invoke(t) /\ UNCHANGED nonRegVars
    \/ \E t \in Threads : Acquire(t) /\ UNCHANGED nonRegVars
    \/ \E t \in Threads : HookSubmit(t) /\ UNCHANGED nonRegVars
    \/ \E t \in Threads : HookReturn(t) /\ UNCHANGED nonRegVars
    \/ \E t \in Threads : ClearSnapshot(t) /\ UNCHANGED nonRegVars
    \/ RunTask /\ UNCHANGED nonRegVars

SpecRegistrar == InitRegistrar /\ [][NextRegistrar]_vars

InitRetryCalls ==
    /\ RetryShared /\ RetryInitUnused /\ ParserUnused /\ RegistrarUnused
    /\ PromptsUnused /\ EventsUnused

NextRetryCalls ==
    \/ \E c \in Calls :
           RetryInvokeCall(c) /\ UNCHANGED nonCallVars
    \/ \E c \in Calls :
           WhileTestCall(c) /\ UNCHANGED nonCallVars
    \/ \E c \in Calls :
           TryInvokeCall(c) /\ UNCHANGED nonCallVars
    \/ \E c \in Calls :
           RaiseLastCall(c) /\ UNCHANGED nonCallVars

SpecRetryCalls == InitRetryCalls /\ [][NextRetryCalls]_vars

InitRetryInit ==
    /\ RetryInitCalled /\ RetryCallsUnused /\ ParserUnused /\ RegistrarUnused
    /\ PromptsUnused /\ EventsUnused

NextRetryInit ==
    RetryInit /\ UNCHANGED <<retryCallVars, parseVars, regVars, promptVars,
                              eventVars>>

SpecRetryInit == InitRetryInit /\ [][NextRetryInit]_vars

InitPrompts ==
    /\ PromptsIdle
    /\ RetryUnused /\ RetryCallsUnused /\ RetryInitUnused /\ ParserUnused
    /\ RegistrarUnused /\ EventsUnused

NextPrompts == ToolResultsToPrompts /\ UNCHANGED nonPromptVars

SpecPrompts == InitPrompts /\ [][NextPrompts]_vars

\* A Retry over a base tool that Registrar.register is called for.
InitRetryEvents == RetryConstructed /\ OnlyRetry /\ EventsUnused

NextRetryEvents ==
    \/ RegisterBaseTool /\ UNCHANGED nonRegVars
    \/ RetryInvoke /\ UNCHANGED nonRetryVars
    \/ WhileTest /\ UNCHANGED nonRetryVars
    \/ TryInvokeBaseTool
           /\ UNCHANGED <<retryCallVars, retryInitVars, parseVars, regVars,
                          promptVars>>
    \/ RaiseLast /\ UNCHANGED nonRetryVars

SpecRetryEvents == InitRetryEvents /\ [][NextRetryEvents]_vars

(***************************************************************************)
(* Claims about the Retry wrapper, checked under SpecRetry.                *)
(***************************************************************************)
\* An exception kind is matched when it is an instance of a class the wrapper
\* was configured with (of Exception when it was configured with none).
Matched(kind) ==
    IF exceptions_arg.form = "none" THEN IsSubclass(kind, "Exception")
    ELSE \E j \in 1..Len(exceptions_arg.classes) :
             IsSubclass(kind, exceptions_arg.classes[j])

\* The base tool's first n invocations all fail with a matched kind.
FirstFailMatched(n) ==
    \A j \in 1..n : script[j] # "ok" /\ Matched(script[j])

\* C1: when the base tool fails k times with a matched kind and then
\* succeeds, and max_retries >= k, retry_invoke returns the result of the
\* base tool's successful invocation and has invoked the base tool exactly
\* k+1 times.
C1_RetrySuccess ==
    \A k \in 0..(ScriptLen - 1) :
        (max_retries >= k /\ FirstFailMatched(k) /\ script[k + 1] = "ok")
        => /\ invoked <= k + 1
           /\ rpc = "done" =>
                  /\ outcome = [kind |-> "returned", value |-> ToolResult(k + 1)]
                  /\ invoked = k + 1

\* A call that used its whole retry budget and then succeeded.
C1_Witness ==
    /\ rpc = "done"
    /\ max_retries = MaxRetries
    /\ FirstFailMatched(MaxRetries)
    /\ outcome = [kind |-> "returned", value |-> ToolResult(MaxRetries + 1)]
    /\ invoked = MaxRetries + 1

\* C2: with max_retries >= 0 the base tool is never invoked more than
\* max_retries + 1 times, and when its first max_retries + 1 invocations all
\* fail with a matched kind, retry_invoke invokes it exactly max_retries + 1
\* times and raises the exception of the last of them.
C2_RetryExhaustion ==
    max_retries >= 0 =>
        /\ invoked <= max_retries + 1
        /\ (FirstFailMatched(max_retries + 1) /\ rpc = "done") =>
               /\ invoked = max_retries + 1
               /\ outcome =
                      [kind |-> "raised",
                       value |-> ToolException(script[max_retries + 1],
                                               max_retries + 1)]

\* An exhausted call whose first and last failures are of different kinds.
C2_Witness ==
    /\ rpc = "done"
    /\ max_retries = MaxRetries
    /\ FirstFailMatched(MaxRetries + 1)
    /\ script[1] # script[MaxRetries + 1]
    /\ outcome.kind = "raised"
    /\ outcome.value.v = <<MaxRetries + 1>>

\* C3: when the base tool raises an unmatched kind at attempt i (after i-1
\* matched failures, i within the budget), that exception is what the caller
\* gets and the base tool is not invoked again.
C3_UnmatchedNeverRetried ==
    \A i \in 1..ScriptLen :
        ( /\ i <= max_retries + 1
          /\ FirstFailMatched(i - 1)
          /\ script[i] # "ok"
          /\ ~Matched(script[i]) )
        => /\ invoked <= i
           /\ rpc = "done" =>
                  /\ invoked = i
                  /\ outcome = [kind |-> "raised",
                                 value |-> ToolException(script[i], i)]

\* An unmatched exception that is an Exception (so the default would match
\* it), raised after an earlier matched failure with retries remaining.
C3_Witness ==
    /\ rpc = "done"
    /\ invoked = 2
    /\ max_retries = MaxRetries
    /\ script[1] = "ValueError"
    /\ script[2] = "KeyError"
    /\ ~Matched("KeyError")
    /\ outcome = [kind |-> "raised", value |-> ToolException("KeyError", 2)]

(***************************************************************************)
(* Claims about the ReAct parser, checked under SpecParse.                 *)
(***************************************************************************)
\* The value a caller takes for "no answer": None or the empty string.
NoAnswer(value) == value = None \/ value = Str(<<>>)

\* The name an Action line gives.
ActionName(line) == Strip(AfterFirst(line, "Action:"))

NamedActionLines == {a \in ActionLines : ActionName(a) # <<>>}

\* The Python value of the JSON object of the model.
QCats == [type |-> "dict", v |-> <<"q", "cats">>]

\* parse_for_result, once it has run, returned this value.
ResultIs(value) ==
    result.kind # "idle" =>
        result = [kind |-> "returned", value |-> value, error |-> "none"]

\* parse_for_tool_calls, once it has run, returned this list.
ToolCallsAre(calls) ==
    tool_calls.kind # "idle" =>
        tool_calls = [kind |-> "returned", value |-> calls, error |-> "none"]

\* Both parse functions, once they have run, raised this kind of error.
BothRaise(kind) ==
    /\ result.kind # "idle" =>
           result = [kind |-> "raised", value |-> None, error |-> kind]
    /\ tool_calls.kind # "idle" =>
           tool_calls = [kind |-> "raised", value |-> <<>>, error |-> kind]

\* The three well-formed shapes of C4, with the Action line drawn from
\* actionLines: a reasoning-only result, exactly the tool call, a final answer.
WellFormedParses(actionLines) ==
    \A th \in ThoughtLines :
        /\ text = th => ResultIs(None) /\ ToolCallsAre(<<>>)
        /\ \A a \in actionLines :
               text = JoinLines(<<th, a,
                                  <<"Action Input:", " ", "{\"q\": \"cats\"}">> >>)
               => /\ ToolCallsAre(<< <<Str(ActionName(a)), QCats>> >>)
                  /\ ResultIs(Str(<<>>))
        /\ \A an \in AnswerLines :
               text = JoinLines(<<th, an>>)
               => /\ ToolCallsAre(<<>>)
                  /\ result.kind # "idle" =>
                         /\ result.kind = "returned"
                         /\ ~NoAnswer(result.value)

\* C4 as stated: every text made of a Thought line followed by nothing, by an
\* Action line and an Action Input line holding a JSON object, or by a single
\* Answer line parses without raising, to a reasoning-only result, to exactly
\* the tool call, or to a final answer.
C4_WellFormedAnyAction == WellFormedParses(ActionLines)

\* C4 as amended: the same, for Action lines that give a non-empty name.
C4_WellFormedNamedAction == WellFormedParses(NamedActionLines)

\* Scenario A parsed by both functions.
C4_Witness ==
    /\ text = JoinLines(<< <<"Thought:", " ", "t">>,
                           <<"Action:", " ", "search", " ">>,
                           <<"Action Input:", " ", "{\"q\": \"cats\"}">> >>)
    /\ tool_calls = [kind |-> "returned",
                     value |-> << <<Str(<<"search">>), QCats>> >>,
                     error |-> "none"]
    /\ result.kind = "returned"

\* Whether a line of the text satisfies keep, and the first that does.
HasLineWhere(keep(_)) ==
    LET ls == SplitLines(text)
    IN  \E i \in 1..Len(ls) : keep(ls[i])

FirstLineWhere(keep(_)) ==
    LET ls == SplitLines(text)
    IN  ls[CHOOSE i \in 1..Len(ls) :
               keep(ls[i]) /\ \A j \in 1..(i - 1) : ~keep(ls[j])]

NonEmpty(line) == line # <<>>

NonBlank(line) == Strip(line) # <<>>

\* C5 as stated: a text whose first non-empty line does not start with
\* `Thought:` fails with FormatException in both parse functions.
C5_NoThoughtFails ==
    (HasLineWhere(NonEmpty) /\ ~StartsWith(FirstLineWhere(NonEmpty), "Thought:"))
    => BothRaise("FormatException")

\* C5 as amended: a text whose first non-blank line, its leading whitespace
\* removed, does not start with `Thought:` fails with FormatException in both
\* parse functions.
C5_NoThoughtAfterStripFails ==
    ( /\ HasLineWhere(NonBlank)
      /\ ~StartsWith(LStrip(FirstLineWhere(NonBlank)), "Thought:") )
    => BothRaise("FormatException")

\* A text that opens with a valid Action, Action Input and Answer line and
\* was refused by both functions.
C5_Witness ==
    /\ text = JoinLines(<< <<"Action:", " ", "search", " ">>,
                           <<"Action Input:", " ", "{\"q\": \"cats\"}">>,
                           <<"Answer:", " ", "Paris">> >>)
    /\ result.kind = "raised"
    /\ result.error = "FormatException"
    /\ tool_calls.kind = "raised"
    /\ tool_calls.error = "FormatException"

\* The text opens with a Thought line (after the strip of the whole text).
ThoughtFirst == StartsWith(SplitLines(Strip(text))[1], "Thought:")

\* The lines after the Thought line.
Body == Tail(SplitLines(Strip(text)))

\* The position in Body of the first Answer line, 0 when there is none.
AnswerAt ==
    LET body == Body
    IN  IF \E i \in 1..Len(body) : StartsWith(body[i], "Answer:")
        THEN CHOOSE i \in 1..Len(body) :
                 /\ StartsWith(body[i], "Answer:")
                 /\ \A j \in 1..(i - 1) : ~StartsWith(body[j], "Answer:")
        ELSE 0

\* The lines the scan reads: those up to the first Answer line.
ScannedLines ==
    LET body == Body
        at == AnswerAt
    IN  IF at = 0 THEN body ELSE SubSeq(body, 1, at)

Scanned(keyword) ==
    LET scanned == ScannedLines
    IN  \E i \in 1..Len(scanned) : StartsWith(scanned[i], keyword)

\* C6: when the scanned lines hold an Action line and no Action Input line,
\* parsing fails with the error kind of a missing Thought line
\* (FormatException), also when an Answer line follows.
C6_ActionWithoutInputIsFormatError ==
    (ThoughtFirst /\ Scanned("Action:") /\ ~Scanned("Action Input:"))
    => BothRaise("FormatException")

\* C7: an Action Input line whose remainder is not valid JSON does not make
\* parsing raise; the tool call's arguments are the raw trimmed remainder.
C7_InvalidJsonKeptRaw ==
    \A th \in ThoughtLines, a \in NamedActionLines :
        text = JoinLines(<<th, a, <<"Action Input:", " ", "cats">> >>)
        => ToolCallsAre(<< <<Str(ActionName(a)), Str(<<"cats">>)>> >>)

\* The Python value a JSON document of the model stands for.
JsonValue(doc) ==
    CASE doc = "{\"q\": \"cats\"}" -> QCats
      [] doc = "5"                 -> [type |-> "int", v |-> <<"5">>]
      [] doc = "\"s\""             -> Str(<<"s">>)
      [] doc = "null"              -> None

\* C8: an Action Input line holding valid JSON of any kind parses to the
\* equivalent value, which is the tool call's arguments as it is.
C8_AnyJsonPassedThrough ==
    \A th \in ThoughtLines, a \in NamedActionLines, doc \in JsonDocuments :
        text = JoinLines(<<th, a, <<"Action Input:", " ", doc>> >>)
        => ToolCallsAre(<< <<Str(ActionName(a)), JsonValue(doc)>> >>)

\* C9: the answer parse_for_result returns is the remainder of the Answer
\* line joined by newlines with the lines after it; with no line after it,
\* the answer is the remainder alone.
C9_AnswerIsRemainderAndRest ==
    (ThoughtFirst /\ AnswerAt # 0 /\ result.kind = "returned")
    => result.value =
           Str(JoinLines(<<Strip(AfterFirst(Body[AnswerAt], "Answer:"))>>
                         \o SubSeq(Body, AnswerAt + 1, Len(Body))))

\* C10: whenever parse_for_tool_calls yields a tool call, parse_for_result
\* yields no final answer for the same text.
C10_ToolCallExcludesAnswer ==
    ( /\ tool_calls.kind = "returned"
      /\ tool_calls.value # <<>>
      /\ result.kind # "idle" )
    => result.kind = "returned" /\ NoAnswer(result.value)

\* C22: a text that parses has a non-empty Thought.
C22_ThoughtNeverEmpty ==
    (result.kind = "returned" \/ tool_calls.kind = "returned")
    => Parse(text).response.Thought # Str(<<>>)

\* The lines after the first Answer line.
AfterAnswerLines ==
    LET body == Body
    IN  SubSeq(body, AnswerAt + 1, Len(body))

\* s ends with t.
EndsWith(s, t) ==
    /\ Len(s) >= Len(t)
    /\ SubSeq(s, Len(s) - Len(t) + 1, Len(s)) = t

\* The last Action line among the scanned lines.
LastScannedAction ==
    LET scanned == ScannedLines
    IN  scanned[CHOOSE i \in 1..Len(scanned) :
                    /\ StartsWith(scanned[i], "Action:")
                    /\ \A j \in (i + 1)..Len(scanned) :
                           ~StartsWith(scanned[j], "Action:")]

\* C23: in a text with an Answer line, the lines after the first Answer line
\* are not read as directives: with no Action line up to the Answer line
\* there is no tool call and no Action-without-Action-Input failure, a tool
\* call takes its name from the lines up to the Answer line, and the answer
\* ends with the lines after the Answer line.
C23_NothingReadAfterAnswer ==
    ( /\ result.kind # "idle" \/ tool_calls.kind # "idle"
      /\ ThoughtFirst
      /\ AnswerAt # 0 ) =>
        /\ ~Scanned("Action:") =>
               /\ result.error # "ValueError"
               /\ tool_calls.error # "ValueError"
               /\ tool_calls.value = <<>>
        /\ (tool_calls.kind = "returned" /\ tool_calls.value # <<>>) =>
               /\ Scanned("Action:")
               /\ tool_calls.value[1][1] = Str(ActionName(LastScannedAction))
        /\ result.kind = "returned" =>
               EndsWith(result.value.v, JoinLines(AfterAnswerLines))

C23_Witness ==
    /\ ThoughtFirst
    /\ AnswerAt # 0
    /\ ~Scanned("Action:")
    /\ LET after == AfterAnswerLines
       IN  \E i \in 1..Len(after) :
               /\ StartsWith(after[i], "Action:")
               /\ ActionName(after[i]) # <<>>
    /\ result.kind = "returned"
    /\ tool_calls.kind = "returned"

\* C27: parse_for_tool_calls returns at most one tool call, and one only
\* when the last Action line read gives a non-empty name; the backend is
\* constructed with max_simultaneous_tools = 1.
C27_AtMostOneToolCall ==
    /\ max_simultaneous_tools = 1
    /\ tool_calls.kind = "returned" =>
           /\ Len(tool_calls.value) <= 1
           /\ Len(tool_calls.value) = 1 =>
                  /\ ThoughtFirst
                  /\ Scanned("Action:")
                  /\ ActionName(LastScannedAction) # <<>>

C27_Witness ==
    /\ tool_calls.kind = "returned"
    /\ Len(tool_calls.value) = 1
    /\ \E i \in 1..Len(Body) :
           /\ StartsWith(Body[i], "Action:")
           /\ ActionName(Body[i]) = <<>>

(***************************************************************************)
(*                    Claims about the Registrar                           *)
(***************************************************************************)
InSeq(x, s) == \E i \in 1..Len(s) : s[i] = x

HookCalls == 1..Len(hook_calls)

\* The tasks a hook call submitted for a listener, as positions in the
\* executor's submission order.
TasksOf(c, l) ==
    {k \in 1..Len(submitted) :
         submitted[k].call = c /\ submitted[k].listener = l}

TasksOfCall(c) == {k \in 1..Len(submitted) : submitted[k].call = c}

TasksOfInvocation(i, l) ==
    {k \in 1..Len(submitted) :
         hook_calls[submitted[k].call].inv = i /\ submitted[k].listener = l}

\* The hook call has taken the lock and has returned.
HookCallOver(c) ==
    /\ hook_calls[c].order > 0
    /\ \A t \in Threads : ~(thr[t].op = "_on_tool_call" /\ thr[t].call = c)

\* C11: with fan-out enabled, one invocation of a tool gives each external
\* listener exactly one task, also when the tool was registered twice.
C11_OneTaskPerListenerPerInvocation ==
    \A i \in 1..Len(invocations) : \A l \in Listeners :
        (/\ invocations[i].outcome = "returned"
         /\ \A c \in HookCalls :
                hook_calls[c].inv = i =>
                    hook_calls[c].enabled /\ InSeq(l, hook_calls[c].listeners))
        => Cardinality(TasksOfInvocation(i, l)) = 1

\* C12: register never replaces or removes an entry of the mapping: a second
\* register for a known identity leaves the first tool in place.
C12_RegisterKeepsExistingEntry ==
    [][/\ Len(reg_tools') >= Len(reg_tools)
       /\ \A i \in 1..Len(reg_tools) : reg_tools'[i] = reg_tools[i]]_vars

\* C13: a task is only ever submitted while the flag is on, by a hook call
\* that found the flag on when it took the lock; a hook call that found it
\* off never gets a task, whatever is enabled later.
C13_DisabledDispatchesNothing ==
    /\ \A k \in 1..Len(submitted) : hook_calls[submitted[k].call].enabled
    /\ \A t \in Threads :
           (/\ thr[t].op = "_on_tool_call"
            /\ thr[t].pc = "locked"
            /\ TasksOfCall(thr[t].call) # {})
           => reg_enabled

C13_Witness ==
    \E c1, c2 \in HookCalls :
        /\ HookCallOver(c1)
        /\ ~hook_calls[c1].enabled
        /\ hook_calls[c1].listeners # <<>>
        /\ TasksOfCall(c1) = {}
        /\ HookCallOver(c2)
        /\ hook_calls[c2].order > hook_calls[c1].order
        /\ TasksOfCall(c2) # {}

\* What a caller reads from the list get_tools() gave it.
Observed ==
    IF snap.alias THEN Values(reg_tools) ELSE snap.items

\* C14: the list get_tools() returned keeps the content it was returned with
\* whatever is registered later, and emptying it leaves the mapping alone.
C14_GetToolsIsASnapshot ==
    /\ [](snap.held => Observed = snap.taken)
    /\ [][(snap.held /\ snap.taken # <<>> /\ snap'.taken = <<>>)
          => reg_tools' = reg_tools]_vars

C14_Witness ==
    /\ snap.held
    /\ snap.taken = <<>>
    /\ Observed = <<>>
    /\ Len(reg_tools) > 1

\* C15: no invocation fails because of a listener, and every hook call that
\* found the flag on has given each listener of that moment exactly one task,
\* whatever became of the tasks submitted before.
C15_ListenerFailureIsContained ==
    /\ \A i \in 1..Len(invocations) : invocations[i].outcome # "raised"
    /\ \A c \in HookCalls :
           (HookCallOver(c) /\ hook_calls[c].enabled) =>
               \A l \in Listeners :
                   Cardinality(TasksOf(c, l)) =
                       IF InSeq(l, hook_calls[c].listeners) THEN 1 ELSE 0

C15_Witness ==
    \E k, j \in 1..Len(submitted) :
        /\ submitted[k].status = "raised"
        /\ submitted[j].call = submitted[k].call
        /\ submitted[j].listener # submitted[k].listener
        /\ invocations[hook_calls[submitted[k].call].inv].outcome = "returned"

\* The next step of the call thread t is in.
StepOf(t) ==
    \/ Acquire(t)
    \/ Register(t)
    \/ HookSubmit(t)
    \/ HookReturn(t)

\* A method called by an idle thread while the lock is free runs at once.
RunsAtOnce(t) ==
    /\ ENABLED CallRegister(t)
    /\ ENABLED GetTools(t)
    /\ ENABLED Enable(t)
    /\ ENABLED Disable(t)
    /\ (\E l \in Listeners : ~InSeq(l, reg_listeners))
           => ENABLED AddToolCallListener(t)

\* C16: no call ever waits for a listener: the lock is held only by a thread
\* inside the hook, a thread inside the hook can always take its next step,
\* a thread at the lock can enter as soon as the lock is free, and so can
\* any method that is called then, whatever the state of the tasks.
C16_NoCallWaitsForAListener ==
    /\ reg_lock # NoThread => thr[reg_lock].pc = "locked"
    /\ \A t \in Threads : thr[t].pc = "locked" => ENABLED StepOf(t)
    /\ \A t \in Threads :
           (thr[t].pc = "wait" /\ reg_lock = NoThread) => ENABLED StepOf(t)
    /\ \A t \in Threads :
           (thr[t].pc = "idle" /\ reg_lock = NoThread /\ ops < MaxOps)
           => RunsAtOnce(t)

C16_Witness ==
    \E k \in 1..Len(submitted) :
        /\ Behaviour(submitted[k].listener) = "hang"
        /\ submitted[k].status = "pending"
        /\ invocations[hook_calls[submitted[k].call].inv].outcome = "returned"
        /\ snap.held
        /\ \A t \in Threads : thr[t].pc = "idle"
        /\ reg_lock = NoThread

\* Every task of hook call c1 for a listener precedes every task of hook
\* call c2 for that listener.
SubmittedBefore(c1, c2) ==
    \A l \in Listeners :
        \A k1 \in TasksOf(c1, l) : \A k2 \in TasksOf(c2, l) : k1 < k2

\* C17 as stated: the hook calls of one tool submit their tasks in the order
\* in which the invocations reached the hook.
C17_SubmittedInHookEntryOrder ==
    \A c1, c2 \in HookCalls :
        (/\ c1 < c2
         /\ hook_calls[c1].tool = hook_calls[c2].tool
         /\ hook_calls[c1].inv # hook_calls[c2].inv)
        => SubmittedBefore(c1, c2)

\* C17: the hook calls of one tool submit their tasks in the order in which
\* they took the Registrar's lock.
C17_SubmittedInLockOrder ==
    \A c1, c2 \in HookCalls :
        (/\ hook_calls[c1].order > 0
         /\ hook_calls[c1].order < hook_calls[c2].order
         /\ hook_calls[c1].tool = hook_calls[c2].tool)
        => SubmittedBefore(c1, c2)

C17_Witness ==
    \E c1, c2 \in HookCalls :
        /\ c2 < c1
        /\ hook_calls[c1].order > 0
        /\ hook_calls[c1].order < hook_calls[c2].order
        /\ hook_calls[c1].tool = hook_calls[c2].tool
        /\ TasksOfCall(c1) # {}
        /\ TasksOfCall(c2) # {}

NoRegisterInProgress == \A t \in Threads : thr[t].op # "register"

\* The tools register was called for whose identity no other such tool has.
DistinctlyRegistered ==
    {tool \in register_calls.tools :
         \A other \in register_calls.tools :
             other # tool => ToolId(other) # ToolId(tool)}

\* C18: once the register calls are over, get_tools() holds each tool that
\* was registered under an identity of its own exactly once, and each of
\* them has the dispatch hook among its listeners.
C18_ConcurrentRegistersAllLand ==
    NoRegisterInProgress =>
        \A tool \in DistinctlyRegistered :
            /\ Cardinality({i \in 1..Len(reg_tools) :
                                Values(reg_tools)[i] = tool}) = 1
            /\ tool_hooks[tool] >= 1

C18_Witness ==
    /\ NoRegisterInProgress
    /\ register_calls.concurrent
    /\ Cardinality(DistinctlyRegistered) > 1

\* C25: no task is submitted to the executor while the Registrar's lock is
\* held: _on_tool_call has left its `with` block before it submits.
C25_SubmitsOutsideLock ==
    [][Len(submitted') > Len(submitted) => reg_lock = NoThread]_vars

\* C26: the tasks of a hook call that found the Registrar enabled are one
\* unbroken run of the executor's submission order, they are for the
\* listeners that were in the list when the call took the lock, one each and
\* in the order of the list, and once the call has returned none of those
\* listeners is left out, whatever the other threads called meanwhile.
C26_FanOutIsAtomic ==
    \A c \in HookCalls :
        (hook_calls[c].order > 0 /\ hook_calls[c].enabled) =>
            LET tasks == TasksOfCall(c)
                listeners == hook_calls[c].listeners
                place(k) == Cardinality({j \in tasks : j <= k})
            IN  /\ \A k1, k2 \in tasks : \A k \in k1..k2 : k \in tasks
                /\ Cardinality(tasks) <= Len(listeners)
                /\ \A k \in tasks :
                       /\ place(k) <= Len(listeners)
                       /\ submitted[k].listener = listeners[place(k)]
                /\ HookCallOver(c) => Cardinality(tasks) = Len(listeners)

\* Two invocations were in the hook at once, the later one took the lock
\* first, and both fanned out in full.
C26_Witness ==
    \E c1, c2 \in HookCalls :
        /\ c2 < c1
        /\ hook_calls[c1].inv # hook_calls[c2].inv
        /\ hook_calls[c1].order > 0
        /\ hook_calls[c1].order < hook_calls[c2].order
        /\ hook_calls[c1].enabled /\ hook_calls[c2].enabled
        /\ HookCallOver(c1) /\ HookCallOver(c2)
        /\ hook_calls[c1].listeners # <<>>
        /\ Cardinality(TasksOfCall(c1)) = Len(hook_calls[c1].listeners)
        /\ Cardinality(TasksOfCall(c2)) = Len(hook_calls[c2].listeners)

(***************************************************************************)
(*                 Claims about Retry calls and construction               *)
(***************************************************************************)
InProgress(c) == frames[c].pc \in {"while", "try", "raise"}

\* C19: at every moment of every retry_invoke call the attempts counter the
\* call works with counts the failures of that call alone, so the call
\* starts from zero, never makes more than max_retries + 1 attempts, and
\* gives up only after max_retries + 1 attempts of its own.
C19_CountersAreCallLocal ==
    \A c \in Calls :
        /\ InProgress(c) => counters[CounterOf(c)].attempts = frames[c].failures
        /\ frames[c].invoked <= max_retries + 1
        /\ frames[c].outcome = "exhausted" =>
               /\ frames[c].invoked = max_retries + 1
               /\ frames[c].failures = max_retries + 1

C19_Witness ==
    \E c, d, e \in Calls :
        /\ frames[e].outcome = "exhausted"
        /\ frames[c].pc = "try"
        /\ frames[c].failures > 0
        /\ frames[d].pc = "while"
        /\ frames[d].invoked = 0
        /\ counters[CounterOf(d)].attempts = 0

NoOverride == NotGiven(init_args.name) /\ NotGiven(init_args.description)

\* C20 as stated: without overrides the wrapper is given the base tool's
\* name, argument list and description.
C20_SameNameArgsDescription ==
    (tool_init # None /\ NoOverride) =>
        /\ tool_init.name = init_args.tool.name
        /\ tool_init.args = init_args.tool.args
        /\ tool_init.description = init_args.tool.description

\* C20: without overrides the wrapper is given the base tool's argument list
\* and description, and the base tool's name followed by ::retry_ and
\* max_retries.
C20_SameArgsDescriptionSuffixedName ==
    (tool_init # None /\ NoOverride) =>
        /\ tool_init.name.v =
               init_args.tool.name.v \o <<"::retry_", ToString(max_retries)>>
        /\ tool_init.args = init_args.tool.args
        /\ tool_init.description = init_args.tool.description

C20_Witness ==
    /\ tool_init # None
    /\ init_args.name = None
    /\ init_args.description = None
    /\ init_args.max_retries > 0
    /\ init_args.tool.args # <<>>


(***************************************************************************)
(*               Claims about tool_results_to_prompts                      *)
(***************************************************************************)
\* `arg="value"` for a str, `arg=123` for any other value.
ArgText(item) ==
    <<item.arg, "=">>
    \o IF item.value.type = "str"
       THEN <<"\"">> \o item.value.v \o <<"\"">>
       ELSE Format(item.value)

RECURSIVE CommaSeparated(_)
CommaSeparated(items) ==
    IF items = <<>> THEN <<>>
    ELSE IF Len(items) = 1 THEN ArgText(items[1])
    ELSE ArgText(items[1]) \o <<",", " ">> \o CommaSeparated(Tail(items))

\* `name(arg1="value", arg2=123) returned:\n<result>\n`
ReturnedText(r) ==
    <<r.name, "(">> \o CommaSeparated(r.args)
    \o <<")", " ", "returned:", "\n">> \o Format(r.result) \o <<"\n">>

\* C21: tool_results_to_prompts leaves the messages of the prompt as they
\* were and appends, for each result in the given order, one system message
\* whose content is exactly `name(arg1="value", arg2=123) returned:`, a
\* newline, the result and a newline, with nothing before the tool's name.
C21_OneExactMessagePerResult ==
    prompts_pc = "returned" =>
        /\ Len(prompt) = Len(prompt_at_call) + Len(tool_results)
        /\ SubSeq(prompt, 1, Len(prompt_at_call)) = prompt_at_call
        /\ \A i \in 1..Len(tool_results) :
               prompt[Len(prompt_at_call) + i] =
                   [role |-> "system",
                    content |-> ReturnedText(tool_results[i])]

(***************************************************************************)
(*          Claims about Retry over a registered base tool                 *)
(***************************************************************************)
\* C24: a wrapped call over a registered base tool has made the base tool
\* call the Registrar's hook once per attempt, failed attempts included: n
\* attempts, n hook events.
C24_OneHookEventPerAttempt ==
    tool_hooks[BaseTool] > 0 => hook_events = invoked

====
